---- MODULE Spec2Model ----
(***************************************************************************)
(* Game session state machine of HW-GeoGuessr: the useGameState hook       *)
(* (react-vite-app/src/hooks/useGameState.js, second definition, lines     *)
(* 119-340) together with the asynchronous provider fetch it awaits.       *)
(*                                                                         *)
(* A nullable JavaScript value is a sequence: <<>> is null, <<v>> is v.    *)
(* One action is one call of a hook operation followed by the render that  *)
(* commits its state updates; the part of an async operation after its     *)
(* await is the action Settle... that runs when the fetch settles.         *)
(*                                                                         *)
(* The scoring functions (calculateDistance, calculateLocationScore, the   *)
(* floor penalty of ResultScreen, getPerformanceRating) are operators over *)
(* integers; call and returned hold one direct call of such a function and *)
(* its result, and stay null while the hook runs.                          *)
(*                                                                         *)
(* closure holds the state values the callbacks of the last render closed  *)
(* over; it is kept only where several calls are made between two renders  *)
(* (SpecBatched) and is null where every call is followed by its render.   *)
(* editor is the state of the region editor of the submission app          *)
(* (MapEditor with its RegionPanel), null while the game runs.             *)
(***************************************************************************)
EXTENDS Integers, Sequences, FiniteSets, TLC

VARIABLES screen, currentRound, currentImage, guessLocation, guessFloor,
          currentResult, roundResults, isLoading, error, pending, lastOp,
          call, returned, closure, editor

hookVars == <<screen, currentRound, currentImage, guessLocation, guessFloor,
              currentResult, roundResults, isLoading, error, pending>>

vars == <<screen, currentRound, currentImage, guessLocation, guessFloor,
          currentResult, roundResults, isLoading, error, pending, lastOp,
          call, returned, closure, editor>>

\* ---------------------------------------------------------------- bounds
\* number of distinct images the provider can return
NumImages == 1
\* number of distinct map points a caller can pass to placeMarker
NumPoints == 1
\* floors a caller can pass to selectFloor are 0..MaxFloor
MaxFloor == 1
\* number of floor buttons the game screen offers (the program has 4)
NumFloorButtons == 2
\* most provider fetches outstanding at once under Spec
MaxPending == 1
\* most records roundResults holds under Spec
MaxHist == 1
\* most records roundResults holds under SpecLongHistory
LongHist == 6
\* SpecScoring: the provider returns the images 1..NumTargets
NumTargets == 5
\* SpecScoring: callers pass the points 1..NumSpots to placeMarker
NumSpots == 2
\* SpecScoring: callers pass the floors 0..TopFloor to selectFloor
TopFloor == 2
\* SpecFunctions: calculateDistance is called on the points of the grid
\* 0..GridMax x 0..GridMax
GridMax == 4
\* SpecBatched: nextRound is called while currentRound < MaxRound
MaxRound == 6
\* SpecEditor: at most MaxRegions regions are created
MaxRegions == 2
\* SpecFunctions: the images collection holds up to NumDocs documents
NumDocs == 2
\* SpecFunctions: Math.random() returns one of 0/RandomSteps .. (RandomSteps-1)/RandomSteps
RandomSteps == 5
\* SpecFunctions: calculateLocationScore is called on the distances
\* -MaxDistance..MaxDistance
MaxDistance == 20

\* ------------------------------------------------------ program constants
TOTAL_ROUNDS == 5
LoadFailure == "Failed to load image. Please try again."

Null == <<>>
Some(v) == <<v>>

Images == 1..NumImages
Points == 1..NumPoints
Floors == 0..MaxFloor
Kinds == {"start", "next"}

\* JavaScript truthiness of a nullable number: null and 0 are falsy
TruthyNumber(o) == o # Null /\ o[1] # 0
\* JavaScript truthiness of a nullable object: only null is falsy
TruthyObject(o) == o # Null

PendingCount == pending["start"] + pending["next"]

\* ------------------------------------------------------------ map data
\* the map point a caller passes as point p: the points lie on one line
\* through the map centre, 5 units apart, so that every distance between
\* them is a whole number
Location(p) == [x |-> 50 + 3 * (p - 1), y |-> 50 + 4 * (p - 1)]

\* the correctLocation field of the document the provider returns as image
\* img; image 3 is a document without the field
correctLocation(img) ==
    IF img = 3 THEN Null
    ELSE IF img > 5 THEN Some(Location(img - 4))
    ELSE Some(Location(1))

\* the correctFloor field of image img; image 4 is a document without the
\* field, image 5 a target on floor 0
correctFloor(img) ==
    IF img = 4 THEN Null
    ELSE IF img = 5 THEN Some(0)
    ELSE IF img \in {2, 3} THEN Some(2)
    ELSE Some(1)

\* ------------------------------------------------------------- scoring
\* the series of Math.exp is summed in units of 1/ExpScale
ExpScale == 10000

Min(a, b) == IF a < b THEN a ELSE b
Max(a, b) == IF a > b THEN a ELSE b

\* Math.round of the number v / scale: floor(v / scale + 1/2)
Round(v, scale) == (2 * v + scale) \div (2 * scale)

\* Math.sqrt of n, in whole units (exact on the squares the map points give)
Sqrt(n) == CHOOSE r \in 0..n : r * r <= n /\ n < (r + 1) * (r + 1)

\* calculateDistance without the dy term
calculateDistance_IgnoresY(guess, actual) ==
    LET dx == guess.x - actual.x
    IN  Sqrt(dx * dx)

calculateDistance(guess, actual) ==
    LET dx == guess.x - actual.x
        dy == guess.y - actual.y
    IN  Sqrt(dx * dx + dy * dy)

\* term, and the terms after it, of the power series of
\* maxScore * Math.exp(num / 20); term is the k-1st term. The sum agrees
\* with Math.exp to the rounded score for distances of at most 22 units.
RECURSIVE ExpSeries(_, _, _)
ExpSeries(num, k, term) ==
    IF term = 0 THEN 0
    ELSE term + ExpSeries(num, k + 1, (term * num) \div (20 * k))

\* calculateLocationScore without the clamp to [0, maxScore]
calculateLocationScore_NoClamp(distance) ==
    LET maxScore == 5000
    IN  Round(ExpSeries(-distance, 1, maxScore * ExpScale), ExpScale)

\* decayRate = 0.05 = 1/20
calculateLocationScore(distance) ==
    LET maxScore == 5000
        score == Round(ExpSeries(-distance, 1, maxScore * ExpScale), ExpScale)
    IN  Max(0, Min(maxScore, score))

\* totalScore with the factor 1.2 in place of 0.8
totalScore_Bonus(locationScore, floorCorrect) ==
    IF floorCorrect THEN locationScore ELSE Round(12 * locationScore, 10)

\* floorCorrect ? locationScore : Math.round(locationScore * 0.8)
totalScore(locationScore, floorCorrect) ==
    IF floorCorrect THEN locationScore ELSE Round(8 * locationScore, 10)

\* floorPenalty with Math.floor in place of Math.round
floorPenalty_Floors(locationScore, floorCorrect) ==
    IF floorCorrect THEN 0 ELSE (2 * locationScore) \div 10

\* ResultScreen: floorCorrect ? 0 : Math.round(locationScore * 0.2)
floorPenalty(locationScore, floorCorrect) ==
    IF floorCorrect THEN 0 ELSE Round(2 * locationScore, 10)

\* PercentageAtLeast with > in place of >=
PercentageAtLeast_Strict(total, maxPossible, threshold) ==
    IF maxPossible = 0
    THEN total > 0
    ELSE 100 * total > threshold * maxPossible

\* PercentageAtLeast with 0 / 0 comparing as true
PercentageAtLeast_NaNPasses(total, maxPossible, threshold) ==
    IF maxPossible = 0
    THEN TRUE
    ELSE 100 * total >= threshold * maxPossible

\* (totalScore / maxPossible) * 100 >= threshold, for non-negative integers:
\* 0 / 0 is NaN, which compares false with everything, and n / 0 is Infinity
PercentageAtLeast(total, maxPossible, threshold) ==
    IF maxPossible = 0
    THEN total > 0
    ELSE 100 * total >= threshold * maxPossible

getPerformanceRating(total, maxPossible) ==
    IF PercentageAtLeast(total, maxPossible, 95) THEN "Perfect!"
    ELSE IF PercentageAtLeast(total, maxPossible, 80) THEN "Excellent!"
    ELSE IF PercentageAtLeast(total, maxPossible, 60) THEN "Great!"
    ELSE IF PercentageAtLeast(total, maxPossible, 40) THEN "Good"
    ELSE IF PercentageAtLeast(total, maxPossible, 20) THEN "Keep Practicing"
    ELSE "Beginner"

\* rounds.reduce((sum, round) => sum + round.score, 0)
RECURSIVE SumOfScores(_)
SumOfScores(rounds) ==
    IF rounds = <<>> THEN 0
    ELSE SumOfScores(SubSeq(rounds, 1, Len(rounds) - 1)) + rounds[Len(rounds)].score

\* FinalResultsScreen with TOTAL_ROUNDS * 5000 as the maximum
FinalResultsScreen_FullMatchMax(rounds) ==
    LET total == SumOfScores(rounds)
        maxPossible == TOTAL_ROUNDS * 5000
    IN  [totalScore |-> total,
         maxPossible |-> maxPossible,
         performance |-> getPerformanceRating(total, maxPossible)]

\* what FinalResultsScreen computes from its rounds to render
FinalResultsScreen(rounds) ==
    LET total == SumOfScores(rounds)
        maxPossible == Len(rounds) * 5000
    IN  [totalScore |-> total,
         maxPossible |-> maxPossible,
         performance |-> getPerformanceRating(total, maxPossible)]

Init ==
    /\ screen = "title"
    /\ currentRound = 1
    /\ currentImage = Null
    /\ guessLocation = Null
    /\ guessFloor = Null
    /\ currentResult = Null
    /\ roundResults = <<>>
    /\ isLoading = FALSE
    /\ error = Null
    /\ pending = [k \in Kinds |-> 0]
    /\ lastOp = "init"
    /\ call = Null
    /\ returned = Null
    /\ closure = Null
    /\ editor = Null

\* startGame up to its await: reset the match and issue the fetch
StartGame ==
    /\ currentRound' = 1
    /\ roundResults' = <<>>
    /\ currentResult' = Null
    /\ isLoading' = TRUE
    /\ error' = Null
    /\ pending' = [pending EXCEPT !["start"] = @ + 1]
    /\ lastOp' = "startGame"
    /\ UNCHANGED <<screen, currentImage, guessLocation, guessFloor>>

\* SettleSuccess without setGuessLocation(null) and setGuessFloor(null)
SettleSuccess_KeepsGuess(kind, img) ==
    /\ pending[kind] > 0
    /\ pending' = [pending EXCEPT ![kind] = @ - 1]
    /\ currentImage' = Some(img)
    /\ screen' = "game"
    /\ isLoading' = FALSE
    /\ lastOp' = IF kind = "next" THEN "settleNextSuccess" ELSE "settleStartSuccess"
    /\ UNCHANGED <<currentRound, currentResult, roundResults, error,
                   guessLocation, guessFloor>>

\* the fetch of a startGame or nextRound resolves with image img
SettleSuccess(kind, img) ==
    /\ pending[kind] > 0
    /\ pending' = [pending EXCEPT ![kind] = @ - 1]
    /\ currentImage' = Some(img)
    /\ guessLocation' = Null
    /\ guessFloor' = Null
    /\ screen' = "game"
    /\ isLoading' = FALSE
    /\ lastOp' = IF kind = "next" THEN "settleNextSuccess" ELSE "settleStartSuccess"
    /\ UNCHANGED <<currentRound, currentResult, roundResults, error>>

\* SettleFailure without the finally block that clears isLoading
SettleFailure_NoFinally(kind) ==
    /\ pending[kind] > 0
    /\ pending' = [pending EXCEPT ![kind] = @ - 1]
    /\ error' = Some(LoadFailure)
    /\ screen' = IF kind = "next" THEN "game" ELSE screen
    /\ lastOp' = IF kind = "next" THEN "settleNextFailure" ELSE "settleStartFailure"
    /\ UNCHANGED <<currentRound, currentImage, guessLocation, guessFloor,
                   currentResult, roundResults, isLoading>>

\* the fetch of a startGame or nextRound rejects
SettleFailure(kind) ==
    /\ pending[kind] > 0
    /\ pending' = [pending EXCEPT ![kind] = @ - 1]
    /\ error' = Some(LoadFailure)
    /\ isLoading' = FALSE
    /\ screen' = IF kind = "next" THEN "game" ELSE screen
    /\ lastOp' = IF kind = "next" THEN "settleNextFailure" ELSE "settleStartFailure"
    /\ UNCHANGED <<currentRound, currentImage, guessLocation, guessFloor,
                   currentResult, roundResults>>

\* PlaceMarker that ignores the call while no image is loaded
PlaceMarker_NeedsImage(coords) ==
    /\ guessLocation' = IF currentImage = Null THEN guessLocation ELSE Some(coords)
    /\ lastOp' = "placeMarker"
    /\ UNCHANGED <<screen, currentRound, currentImage, guessFloor,
                   currentResult, roundResults, isLoading, error, pending>>

PlaceMarker(coords) ==
    /\ guessLocation' = Some(coords)
    /\ lastOp' = "placeMarker"
    /\ UNCHANGED <<screen, currentRound, currentImage, guessFloor,
                   currentResult, roundResults, isLoading, error, pending>>

SelectFloor(floor) ==
    /\ guessFloor' = Some(floor)
    /\ lastOp' = "selectFloor"
    /\ UNCHANGED <<screen, currentRound, currentImage, guessLocation,
                   currentResult, roundResults, isLoading, error, pending>>

\* CanSubmit without the test of guessFloor
CanSubmit_IgnoresFloor ==
    TruthyObject(guessLocation) /\ TruthyObject(currentImage)

CanSubmit ==
    TruthyObject(guessLocation) /\ TruthyNumber(guessFloor) /\ TruthyObject(currentImage)

\* actualLocation with { x: 53, y: 54 } as the default
actualLocation_OtherDefault ==
    LET field == correctLocation(currentImage[1])
    IN  IF TruthyObject(field) THEN field[1] ELSE [x |-> 53, y |-> 54]

\* currentImage.correctLocation || { x: 50, y: 50 }
actualLocation ==
    LET field == correctLocation(currentImage[1])
    IN  IF TruthyObject(field) THEN field[1] ELSE [x |-> 50, y |-> 50]

\* currentImage.correctFloor || 1
actualFloor ==
    LET field == correctFloor(currentImage[1])
    IN  IF TruthyNumber(field) THEN field[1] ELSE 1

\* the round record submitGuess builds
Result ==
    LET distance == calculateDistance(Location(guessLocation[1]), actualLocation)
        locationScore == calculateLocationScore(distance)
        floorCorrect == guessFloor = Some(actualFloor)
    IN  [roundNumber |-> currentRound,
         image |-> currentImage,
         guessLocation |-> guessLocation,
         actualLocation |-> actualLocation,
         guessFloor |-> guessFloor,
         actualFloor |-> actualFloor,
         distance |-> distance,
         locationScore |-> locationScore,
         floorCorrect |-> floorCorrect,
         score |-> totalScore(locationScore, floorCorrect)]

\* SubmitGuess with setRoundResults([result]) in place of [...prev, result]
SubmitGuess_DropsEarlier ==
    /\ lastOp' = "submitGuess"
    /\ IF ~CanSubmit
       THEN UNCHANGED <<screen, currentRound, currentImage, guessLocation, guessFloor,
                        currentResult, roundResults, isLoading, error, pending>>
       ELSE /\ currentResult' = Some(Result)
            /\ roundResults' = <<Result>>
            /\ screen' = "result"
            /\ UNCHANGED <<currentRound, currentImage, guessLocation, guessFloor,
                           isLoading, error, pending>>

SubmitGuess ==
    /\ lastOp' = "submitGuess"
    /\ IF ~CanSubmit
       THEN UNCHANGED <<screen, currentRound, currentImage, guessLocation, guessFloor,
                        currentResult, roundResults, isLoading, error, pending>>
       ELSE /\ currentResult' = Some(Result)
            /\ roundResults' = Append(roundResults, Result)
            /\ screen' = "result"
            /\ UNCHANGED <<currentRound, currentImage, guessLocation, guessFloor,
                           isLoading, error, pending>>

\* NextRound with > in place of >= in the last-round test
NextRound_OffByOne ==
    /\ lastOp' = "nextRound"
    /\ IF currentRound > TOTAL_ROUNDS
       THEN /\ screen' = "finalResults"
            /\ UNCHANGED <<currentRound, currentImage, guessLocation, guessFloor,
                           currentResult, roundResults, isLoading, error, pending>>
       ELSE /\ currentRound' = currentRound + 1
            /\ currentResult' = Null
            /\ isLoading' = TRUE
            /\ error' = Null
            /\ pending' = [pending EXCEPT !["next"] = @ + 1]
            /\ UNCHANGED <<screen, currentImage, guessLocation, guessFloor, roundResults>>

\* NextRound without setCurrentResult(null)
NextRound_KeepsResult ==
    /\ lastOp' = "nextRound"
    /\ IF currentRound >= TOTAL_ROUNDS
       THEN /\ screen' = "finalResults"
            /\ UNCHANGED <<currentRound, currentImage, guessLocation, guessFloor,
                           currentResult, roundResults, isLoading, error, pending>>
       ELSE /\ currentRound' = currentRound + 1
            /\ isLoading' = TRUE
            /\ error' = Null
            /\ pending' = [pending EXCEPT !["next"] = @ + 1]
            /\ UNCHANGED <<screen, currentImage, guessLocation, guessFloor,
                           currentResult, roundResults>>

\* NextRound without the increment of currentRound
NextRound_NoIncrement ==
    /\ lastOp' = "nextRound"
    /\ IF currentRound >= TOTAL_ROUNDS
       THEN /\ screen' = "finalResults"
            /\ UNCHANGED <<currentRound, currentImage, guessLocation, guessFloor,
                           currentResult, roundResults, isLoading, error, pending>>
       ELSE /\ currentResult' = Null
            /\ isLoading' = TRUE
            /\ error' = Null
            /\ pending' = [pending EXCEPT !["next"] = @ + 1]
            /\ UNCHANGED <<screen, currentRound, currentImage, guessLocation, guessFloor,
                           roundResults>>

\* NextRound with an increment of 2
NextRound_SkipsARound ==
    /\ lastOp' = "nextRound"
    /\ IF currentRound >= TOTAL_ROUNDS
       THEN /\ screen' = "finalResults"
            /\ UNCHANGED <<currentRound, currentImage, guessLocation, guessFloor,
                           currentResult, roundResults, isLoading, error, pending>>
       ELSE /\ currentRound' = currentRound + 2
            /\ currentResult' = Null
            /\ isLoading' = TRUE
            /\ error' = Null
            /\ pending' = [pending EXCEPT !["next"] = @ + 1]
            /\ UNCHANGED <<screen, currentImage, guessLocation, guessFloor, roundResults>>

\* nextRound up to its await
NextRound ==
    /\ lastOp' = "nextRound"
    /\ IF currentRound >= TOTAL_ROUNDS
       THEN /\ screen' = "finalResults"
            /\ UNCHANGED <<currentRound, currentImage, guessLocation, guessFloor,
                           currentResult, roundResults, isLoading, error, pending>>
       ELSE /\ currentRound' = currentRound + 1
            /\ currentResult' = Null
            /\ isLoading' = TRUE
            /\ error' = Null
            /\ pending' = [pending EXCEPT !["next"] = @ + 1]
            /\ UNCHANGED <<screen, currentImage, guessLocation, guessFloor, roundResults>>

\* ViewFinalResults that acts only on the last round's result screen
ViewFinalResults_Guarded ==
    /\ screen' = IF screen = "result" /\ currentRound = TOTAL_ROUNDS
                 THEN "finalResults" ELSE screen
    /\ lastOp' = "viewFinalResults"
    /\ UNCHANGED <<currentRound, currentImage, guessLocation, guessFloor,
                   currentResult, roundResults, isLoading, error, pending>>

ViewFinalResults ==
    /\ screen' = "finalResults"
    /\ lastOp' = "viewFinalResults"
    /\ UNCHANGED <<currentRound, currentImage, guessLocation, guessFloor,
                   currentResult, roundResults, isLoading, error, pending>>

ResetGame ==
    /\ screen' = "title"
    /\ currentRound' = 1
    /\ currentImage' = Null
    /\ guessLocation' = Null
    /\ guessFloor' = Null
    /\ currentResult' = Null
    /\ roundResults' = <<>>
    /\ error' = Null
    /\ lastOp' = "resetGame"
    /\ UNCHANGED <<isLoading, pending>>

\* ------------------------------------------------------------ Spec
\* The hook driven through its whole API, calls in any order from any screen,
\* fetches settling in any order.
RoomToFetch(pendCap) == PendingCount < pendCap

CallsAnyOrder(histCap, pendCap, images, points, floors) ==
    /\ UNCHANGED <<call, returned, closure, editor>>
    /\ \/ RoomToFetch(pendCap) /\ StartGame
       \/ \E k \in Kinds, img \in images : SettleSuccess(k, img)
       \/ \E k \in Kinds : SettleFailure(k)
       \/ \E p \in points : PlaceMarker(p)
       \/ \E f \in floors : SelectFloor(f)
       \/ (CanSubmit => Len(roundResults) < histCap) /\ SubmitGuess
       \/ (currentRound < TOTAL_ROUNDS => RoomToFetch(pendCap)) /\ NextRound
       \/ ViewFinalResults
       \/ ResetGame

Next == CallsAnyOrder(MaxHist, MaxPending, Images, Points, Floors)

Spec == Init /\ [][Next]_vars

\* The same with room for more records than a match has rounds and for two
\* fetches at once, over one image, one point and the floors 0 and 1.
NextLongHistory == CallsAnyOrder(LongHist, 2, {1}, {1}, {0, 1})

SpecLongHistory == Init /\ [][NextLongHistory]_vars

\* Calls in any order with two fetches at once and two images, at most two
\* records.
NextOverlap == CallsAnyOrder(2, 2, {1, 2}, {1}, {0, 1})

SpecOverlap == Init /\ [][NextOverlap]_vars

\* One round played with every target of the catalogue, documents with a
\* missing field included, calls in any order.
NextScoring == CallsAnyOrder(1, 1, 1..NumTargets, 1..NumSpots, 0..TopFloor)

SpecScoring == Init /\ [][NextScoring]_vars

\* ----------------------------------------------------- SpecAwaited
\* The hook driven through the controls App renders, each control used only
\* when no fetch is outstanding (the caller awaits startGame and nextRound).
ErrorView == error # Null
TitleShown == ~ErrorView /\ screen = "title"
GameShown == ~ErrorView /\ screen = "game" /\ currentImage # Null
ResultShown == ~ErrorView /\ screen = "result" /\ currentResult # Null
FinalShown == ~ErrorView /\ screen = "finalResults"
\* the Guess button is enabled with either half of the guess
GuessEnabled_EitherHalf == guessLocation # Null \/ guessFloor # Null

\* GameScreen: canSubmit
GuessEnabled == guessLocation # Null /\ guessFloor # Null
\* FloorSelector offers the floors 1, 2, ...
FloorButtons == 1..NumFloorButtons
Idle == PendingCount = 0

\* a click on the Guess button: a disabled button dispatches no click event,
\* an enabled one runs onClick = submitGuess
ClickGuess ==
    IF GuessEnabled
    THEN SubmitGuess
    ELSE /\ lastOp' = "clickDisabledGuess"
         /\ UNCHANGED hookVars

NextAwaited ==
    /\ UNCHANGED <<call, returned, closure, editor>>
    /\ \/ \E k \in Kinds, img \in Images : SettleSuccess(k, img)
       \/ \E k \in Kinds : SettleFailure(k)
       \/ Idle /\ TitleShown /\ ~isLoading /\ StartGame
       \/ Idle /\ FinalShown /\ StartGame
       \/ Idle /\ GameShown /\ \E p \in Points : PlaceMarker(p)
       \/ Idle /\ GameShown /\ \E f \in FloorButtons : SelectFloor(f)
       \/ Idle /\ GameShown /\ ClickGuess
       \/ Idle /\ ResultShown /\ currentRound < TOTAL_ROUNDS /\ NextRound
       \/ Idle /\ ResultShown /\ currentRound >= TOTAL_ROUNDS /\ ViewFinalResults
       \/ Idle /\ (ErrorView \/ GameShown \/ FinalShown) /\ ResetGame

SpecAwaited == Init /\ [][NextAwaited]_vars

\* ---------------------------------------------------- SpecControls
\* The hook driven through the controls App renders, each usable whenever it
\* is on screen, also while a fetch is outstanding: Play Again and Back to
\* Title stay on the final results screen after a click. Over one image, one
\* point and the first floor button, with two fetches at once and at most
\* six records.
NextControls ==
    /\ UNCHANGED <<call, returned, closure, editor>>
    /\ \/ \E k \in Kinds : SettleSuccess(k, 1)
       \/ \E k \in Kinds : SettleFailure(k)
       \/ TitleShown /\ ~isLoading /\ RoomToFetch(2) /\ StartGame
       \/ FinalShown /\ RoomToFetch(2) /\ StartGame
       \/ GameShown /\ PlaceMarker(1)
       \/ GameShown /\ SelectFloor(1)
       \/ GameShown /\ (GuessEnabled => Len(roundResults) < 6) /\ ClickGuess
       \/ ResultShown /\ currentRound < TOTAL_ROUNDS /\ RoomToFetch(2) /\ NextRound
       \/ ResultShown /\ currentRound >= TOTAL_ROUNDS /\ ViewFinalResults
       \/ (ErrorView \/ GameShown \/ FinalShown) /\ ResetGame

SpecControls == Init /\ [][NextControls]_vars

\* --------------------------------------------------- SpecPlaythrough
\* One match played to its end: every fetch resolves, and on each round the
\* player places one marker (at the map centre), picks floor 1 or 2, submits
\* and advances (with nextRound, or on the last round also with View Final
\* Results). The player keeps playing, so a step that stays possible is
\* eventually taken.
NextPlaythrough ==
    /\ UNCHANGED <<call, returned, closure, editor>>
    /\ \/ lastOp = "init" /\ StartGame
       \/ \E k \in Kinds, img \in Images : SettleSuccess(k, img)
       \/ Idle /\ GameShown /\ guessLocation = Null /\ PlaceMarker(1)
       \/ Idle /\ GameShown /\ guessFloor = Null /\ \E f \in {1, 2} : SelectFloor(f)
       \/ Idle /\ GameShown /\ GuessEnabled /\ SubmitGuess
       \/ Idle /\ ResultShown /\ NextRound
       \/ Idle /\ ResultShown /\ currentRound >= TOTAL_ROUNDS /\ ViewFinalResults

SpecPlaythrough == Init /\ [][NextPlaythrough]_vars /\ WF_vars(NextPlaythrough)

\* ------------------------------------------------------- SpecBatched
\* The hook driven through its whole API with calls made back to back: a
\* callback is the one created by the last render, and reads the state values
\* it closed over then (the dependency lists of useCallback); the state
\* updates it queues are applied in call order. Render is the render that
\* follows a batch of calls and recreates the callbacks.
Captured ==
    [guessLocation |-> guessLocation, guessFloor |-> guessFloor,
     currentImage |-> currentImage, currentRound |-> currentRound]

InitBatched ==
    /\ screen = "title"
    /\ currentRound = 1
    /\ currentImage = Null
    /\ guessLocation = Null
    /\ guessFloor = Null
    /\ currentResult = Null
    /\ roundResults = <<>>
    /\ isLoading = FALSE
    /\ error = Null
    /\ pending = [k \in Kinds |-> 0]
    /\ lastOp = "init"
    /\ call = Null
    /\ returned = Null
    /\ closure = Some([guessLocation |-> Null, guessFloor |-> Null,
                       currentImage |-> Null, currentRound |-> 1])
    /\ editor = Null

Render ==
    /\ closure # Some(Captured)
    /\ closure' = Some(Captured)
    /\ UNCHANGED <<hookVars, lastOp>>

\* the round record submitGuess builds from the values c it closed over
ResultOf(c) ==
    LET locationField == correctLocation(c.currentImage[1])
        location == IF TruthyObject(locationField)
                    THEN locationField[1] ELSE [x |-> 50, y |-> 50]
        floorField == correctFloor(c.currentImage[1])
        floor == IF TruthyNumber(floorField) THEN floorField[1] ELSE 1
        distance == calculateDistance(Location(c.guessLocation[1]), location)
        locationScore == calculateLocationScore(distance)
        floorCorrect == c.guessFloor = Some(floor)
    IN  [roundNumber |-> c.currentRound,
         image |-> c.currentImage,
         guessLocation |-> c.guessLocation,
         actualLocation |-> location,
         guessFloor |-> c.guessFloor,
         actualFloor |-> floor,
         distance |-> distance,
         locationScore |-> locationScore,
         floorCorrect |-> floorCorrect,
         score |-> totalScore(locationScore, floorCorrect)]

\* submitGuess of the last render
SubmitGuessOfRender ==
    LET c == closure[1]
    IN  /\ lastOp' = "submitGuess"
        /\ IF ~(/\ TruthyObject(c.guessLocation)
                /\ TruthyNumber(c.guessFloor)
                /\ TruthyObject(c.currentImage))
           THEN UNCHANGED hookVars
           ELSE /\ currentResult' = Some(ResultOf(c))
                /\ roundResults' = Append(roundResults, ResultOf(c))
                /\ screen' = "result"
                /\ UNCHANGED <<currentRound, currentImage, guessLocation, guessFloor,
                               isLoading, error, pending>>

\* nextRound of the last render
NextRoundOfRender ==
    /\ lastOp' = "nextRound"
    /\ IF closure[1].currentRound >= TOTAL_ROUNDS
       THEN /\ screen' = "finalResults"
            /\ UNCHANGED <<currentRound, currentImage, guessLocation, guessFloor,
                           currentResult, roundResults, isLoading, error, pending>>
       ELSE /\ currentRound' = currentRound + 1
            /\ currentResult' = Null
            /\ isLoading' = TRUE
            /\ error' = Null
            /\ pending' = [pending EXCEPT !["next"] = @ + 1]
            /\ UNCHANGED <<screen, currentImage, guessLocation, guessFloor, roundResults>>

\* Over one image, one point and floor 1, with two fetches at once, at most
\* one record, and currentRound counted up to MaxRound. The continuation of
\* a settled fetch runs in a task of its own, so its render precedes any
\* further call.
NextBatched ==
    /\ UNCHANGED <<call, returned, editor>>
    /\ \/ Render
       \/ /\ \/ \E k \in Kinds : SettleSuccess(k, 1)
             \/ \E k \in Kinds : SettleFailure(k)
          /\ closure' = Some(Captured')
       \/ /\ UNCHANGED closure
          /\ \/ RoomToFetch(2) /\ StartGame
             \/ PlaceMarker(1)
             \/ SelectFloor(1)
             \/ Len(roundResults) < 1 /\ SubmitGuessOfRender
             \/ /\ closure[1].currentRound < TOTAL_ROUNDS =>
                      RoomToFetch(2) /\ currentRound < MaxRound
                /\ NextRoundOfRender
             \/ ViewFinalResults
             \/ ResetGame

SpecBatched == InitBatched /\ [][NextBatched]_vars

TypeOK ==
    /\ screen \in {"title", "game", "result", "finalResults"}
    /\ currentRound \in 1..TOTAL_ROUNDS
    /\ pending \in [Kinds -> Nat]

\* ------------------------------------------------------ imageService
\* SAMPLE_IMAGES: the five built-in images
SAMPLE_IMAGES ==
    <<[id |-> <<"sample", 1>>, url |-> <<"unsplash", 1>>,
       correctLocation |-> [x |-> 35, y |-> 45], correctFloor |-> 2],
      [id |-> <<"sample", 2>>, url |-> <<"unsplash", 2>>,
       correctLocation |-> [x |-> 65, y |-> 30], correctFloor |-> 1],
      [id |-> <<"sample", 3>>, url |-> <<"unsplash", 3>>,
       correctLocation |-> [x |-> 80, y |-> 60], correctFloor |-> 1],
      [id |-> <<"sample", 4>>, url |-> <<"unsplash", 4>>,
       correctLocation |-> [x |-> 25, y |-> 75], correctFloor |-> 3],
      [id |-> <<"sample", 5>>, url |-> <<"unsplash", 5>>,
       correctLocation |-> [x |-> 50, y |-> 50], correctFloor |-> 2]>>

\* Math.floor(Math.random() * length), Math.random() being random/RandomSteps;
\* sequences are indexed from 1
RandomIndex(random, length) == (random * length) \div RandomSteps + 1

getRandomSampleImage(random) == SAMPLE_IMAGES[RandomIndex(random, Len(SAMPLE_IMAGES))]

\* a document of the images collection: doc.id and doc.data()
Document(i) == [id |-> <<"doc", i>>, data |-> [url |-> <<"firestore", i>>]]

\* what getDocs does: reject, or resolve with a snapshot of 0..NumDocs documents
GetDocsOutcomes ==
    {[rejects |-> TRUE, docs |-> <<>>]} \cup
    {[rejects |-> FALSE, docs |-> [i \in DOMAIN ids |-> Document(ids[i])]] :
        ids \in UNION {[1..n -> 1..NumDocs] : n \in 0..NumDocs}}

\* the catch block rethrows instead of falling back
getRandomImage_Rethrows(getDocs, random) ==
    IF getDocs.rejects
    THEN [settled |-> "rejected", value |-> <<"error">>]
    ELSE IF Len(getDocs.docs) = 0
    THEN [settled |-> "resolved", value |-> getRandomSampleImage(random)]
    ELSE LET images == [i \in 1..Len(getDocs.docs) |->
                           getDocs.docs[i].data @@ [id |-> getDocs.docs[i].id]]
         IN  [settled |-> "resolved",
              value |-> images[RandomIndex(random, Len(images))]]

\* getRandomImage: the promise it returns, given what getDocs did and the
\* number Math.random() returns (one draw on every path)
getRandomImage(getDocs, random) ==
    IF getDocs.rejects
    THEN [settled |-> "resolved", value |-> getRandomSampleImage(random)]
    ELSE IF Len(getDocs.docs) = 0
    THEN [settled |-> "resolved", value |-> getRandomSampleImage(random)]
    ELSE LET images == [i \in 1..Len(getDocs.docs) |->
                           getDocs.docs[i].data @@ [id |-> getDocs.docs[i].id]]
         IN  [settled |-> "resolved",
              value |-> images[RandomIndex(random, Len(images))]]

\* --------------------------------------------------- SpecFunctions
\* The scoring functions called directly, one call per behaviour: call holds
\* the function and its arguments, returned its result once it has run.
GridPoints == {[x |-> i, y |-> j] : i, j \in 0..GridMax}

\* the scores one round can end with, at 0 and 5 units, floor right or wrong
RoundScores ==
    {totalScore(calculateLocationScore(d), fc) : d \in {0, 5}, fc \in BOOLEAN}

\* the rounds arrays of 0..TOTAL_ROUNDS records
RoundsArrays ==
    UNION {[1..n -> {[score |-> sc] : sc \in RoundScores}] : n \in 0..TOTAL_ROUNDS}

\* the calls made: every pair of grid points, every distance, every location
\* score with the floor right and wrong, every total up to every maximum of
\* 0..TOTAL_ROUNDS rounds, every rounds array
CallMade ==
    \/ \E a \in GridPoints, b \in GridPoints :
          call = Some([fn |-> "calculateDistance", guess |-> a, actual |-> b])
    \/ \E d \in (-MaxDistance)..MaxDistance :
          call = Some([fn |-> "calculateLocationScore", distance |-> d])
    \/ \E ls \in 0..5000, fc \in BOOLEAN :
          call = Some([fn |-> "ResultScreen", locationScore |-> ls, floorCorrect |-> fc])
    \/ \E n \in 0..TOTAL_ROUNDS : \E t \in 0..(n * 5000) :
          call = Some([fn |-> "getPerformanceRating", totalScore |-> t,
                       maxPossible |-> n * 5000])
    \/ \E rs \in RoundsArrays :
          call = Some([fn |-> "FinalResultsScreen", rounds |-> rs])
    \/ \E g \in GetDocsOutcomes, r \in 0..(RandomSteps - 1) :
          call = Some([fn |-> "getRandomImage", getDocs |-> g, random |-> r])

InitFunctions ==
    /\ screen = "title"
    /\ currentRound = 1
    /\ currentImage = Null
    /\ guessLocation = Null
    /\ guessFloor = Null
    /\ currentResult = Null
    /\ roundResults = <<>>
    /\ isLoading = FALSE
    /\ error = Null
    /\ pending = [k \in Kinds |-> 0]
    /\ lastOp = "init"
    /\ returned = Null
    /\ closure = Null
    /\ editor = Null
    /\ CallMade

Returns(fn, value) ==
    /\ call # Null
    /\ call[1].fn = fn
    /\ returned = Null
    /\ returned' = Some(value)
    /\ UNCHANGED <<hookVars, lastOp, call, closure, editor>>

RunCalculateDistance ==
    Returns("calculateDistance", calculateDistance(call[1].guess, call[1].actual))

RunCalculateLocationScore ==
    Returns("calculateLocationScore", calculateLocationScore(call[1].distance))

RunResultScreen ==
    Returns("ResultScreen",
            [totalScore |-> totalScore(call[1].locationScore, call[1].floorCorrect),
             floorPenalty |-> floorPenalty(call[1].locationScore, call[1].floorCorrect)])

RunGetPerformanceRating ==
    Returns("getPerformanceRating",
            getPerformanceRating(call[1].totalScore, call[1].maxPossible))

RunFinalResultsScreen ==
    Returns("FinalResultsScreen", FinalResultsScreen(call[1].rounds))

RunGetRandomImage ==
    Returns("getRandomImage", getRandomImage(call[1].getDocs, call[1].random))

NextFunctions ==
    \/ RunCalculateDistance
    \/ RunCalculateLocationScore
    \/ RunResultScreen
    \/ RunGetPerformanceRating
    \/ RunFinalResultsScreen
    \/ RunGetRandomImage

SpecFunctions == InitFunctions /\ [][NextFunctions]_vars

\* the call fn has returned
Returned(fn) == call # Null /\ call[1].fn = fn /\ returned # Null

\* ------------------------------------------------------- SpecEditor
\* The region editor of the submission app: the handlers of MapEditor and the
\* delete button of its RegionPanel, each call followed by its render.
\* stored is the regions collection as the Firestore client sees it (a write
\* shows at once and is rolled back if it is rejected), regions the last
\* snapshot delivered to the listener; adding and deleting are the addDoc and
\* deleteDoc calls not yet settled, addDocCalls and deleteCalls the calls made.
InitEditor ==
    /\ screen = "title"
    /\ currentRound = 1
    /\ currentImage = Null
    /\ guessLocation = Null
    /\ guessFloor = Null
    /\ currentResult = Null
    /\ roundResults = <<>>
    /\ isLoading = FALSE
    /\ error = Null
    /\ pending = [k \in Kinds |-> 0]
    /\ lastOp = "init"
    /\ call = Null
    /\ returned = Null
    /\ closure = Null
    /\ editor = Some([loading |-> TRUE,
                      stored |-> {},
                      regions |-> {},
                      selectedRegionId |-> Null,
                      isDrawing |-> FALSE,
                      newPolygonPoints |-> <<>>,
                      error |-> Null,
                      showDeleteConfirm |-> FALSE,
                      adding |-> {},
                      deleting |-> {},
                      addDocCalls |-> <<>>,
                      deleteCalls |-> <<>>])

\* RegionPanel: regions.find(r => r.id === selectedRegionId)
selectedRegion(e) ==
    IF e.selectedRegionId # Null /\ e.selectedRegionId[1] \in e.regions
    THEN e.selectedRegionId ELSE Null

\* RegionPanel's effect on [selectedRegion], run with the render that takes
\* the editor from old to new: a snapshot delivers new region objects
PanelEffect(old, new, snapshot) ==
    IF selectedRegion(new) # Null /\ (snapshot \/ selectedRegion(new) # selectedRegion(old))
    THEN [new EXCEPT !.showDeleteConfirm = FALSE]
    ELSE new

\* one step of the editor: op is the handler, new the state it leaves
EditorStep(op, new) ==
    /\ lastOp' = op
    /\ editor' = Some(PanelEffect(editor[1], new, FALSE))

\* the onSnapshot listener
Snapshot ==
    /\ lastOp' = "snapshot"
    /\ editor' = Some(PanelEffect(editor[1],
                                  [editor[1] EXCEPT !.regions = editor[1].stored,
                                                    !.loading = FALSE],
                                  TRUE))

handleStartDrawing ==
    EditorStep("startDrawing",
               [editor[1] EXCEPT !.isDrawing = TRUE,
                                 !.newPolygonPoints = <<>>,
                                 !.selectedRegionId = Null])

handleCancelDrawing ==
    EditorStep("cancelDrawing",
               [editor[1] EXCEPT !.isDrawing = FALSE, !.newPolygonPoints = <<>>])

handlePointAdd(point) ==
    EditorStep("pointAdd",
               [editor[1] EXCEPT !.newPolygonPoints = Append(@, point)])

\* handlePolygonComplete that accepts two points
handlePolygonComplete_TwoPoints(id) ==
    IF Len(editor[1].newPolygonPoints) < 2
    THEN EditorStep("polygonComplete", editor[1])
    ELSE EditorStep("polygonComplete",
                    [editor[1] EXCEPT
                        !.addDocCalls = Append(@, editor[1].newPolygonPoints),
                        !.stored = @ \cup {id},
                        !.adding = @ \cup {id}])

\* handlePolygonComplete up to its await; id is the id of the new document
handlePolygonComplete(id) ==
    IF Len(editor[1].newPolygonPoints) < 3
    THEN EditorStep("polygonComplete", editor[1])
    ELSE EditorStep("polygonComplete",
                    [editor[1] EXCEPT
                        !.addDocCalls = Append(@, editor[1].newPolygonPoints),
                        !.stored = @ \cup {id},
                        !.adding = @ \cup {id}])

\* handlePolygonComplete after its await: addDoc resolved with docRef.id = id
SaveResolved(id) ==
    /\ id \in editor[1].adding
    /\ EditorStep("saveResolved",
                  [editor[1] EXCEPT !.adding = @ \ {id},
                                    !.selectedRegionId = Some(id),
                                    !.isDrawing = FALSE,
                                    !.newPolygonPoints = <<>>])

\* handlePolygonComplete after its await: addDoc rejected
SaveRejected(id) ==
    /\ id \in editor[1].adding
    /\ EditorStep("saveRejected",
                  [editor[1] EXCEPT !.adding = @ \ {id},
                                    !.stored = @ \ {id},
                                    !.error = Some("Failed to save region")])

handleRegionSelect(id) ==
    EditorStep("regionSelect",
               IF ~editor[1].isDrawing
               THEN [editor[1] EXCEPT !.selectedRegionId = Some(id)]
               ELSE editor[1])

\* RegionPanel handleDelete that deletes on the first click
handleDelete_NoConfirm ==
    LET id == editor[1].selectedRegionId[1]
    IN  EditorStep("clickDelete",
                   [editor[1] EXCEPT !.showDeleteConfirm = FALSE,
                                     !.deleteCalls = Append(@, id),
                                     !.stored = @ \ {id},
                                     !.deleting = @ \cup {id}])

\* RegionPanel handleDelete, with MapEditor's handleRegionDelete up to its
\* await when the click confirms
handleDelete ==
    LET id == editor[1].selectedRegionId[1]
    IN  IF editor[1].showDeleteConfirm
        THEN EditorStep("clickDelete",
                        [editor[1] EXCEPT !.showDeleteConfirm = FALSE,
                                          !.deleteCalls = Append(@, id),
                                          !.stored = @ \ {id},
                                          !.deleting = @ \cup {id}])
        ELSE EditorStep("clickDelete", [editor[1] EXCEPT !.showDeleteConfirm = TRUE])

\* the delete button loses the focus
BlurDelete ==
    EditorStep("blurDelete", [editor[1] EXCEPT !.showDeleteConfirm = FALSE])

\* handleRegionDelete after its await: deleteDoc resolved; the region was the
\* selected one when the call was made
DeleteResolved(id) ==
    /\ id \in editor[1].deleting
    /\ EditorStep("deleteResolved",
                  [editor[1] EXCEPT !.deleting = @ \ {id},
                                    !.selectedRegionId = Null])

\* handleRegionDelete after its await: deleteDoc rejected
DeleteRejected(id) ==
    /\ id \in editor[1].deleting
    /\ EditorStep("deleteRejected",
                  [editor[1] EXCEPT !.deleting = @ \ {id},
                                    !.stored = @ \cup {id},
                                    !.error = Some("Failed to delete region")])

\* the editor is rendered once the first snapshot has arrived
EditorShown == ~editor[1].loading
\* RegionPanel renders the region editor with its delete button
DeleteButtonShown == EditorShown /\ selectedRegion(editor[1]) # Null
\* the ids of the documents created so far
RegionIds == 1..MaxRegions

\* With polygons of up to three points, one addDoc and one deleteDoc in
\* flight at a time, and at most MaxRegions delete calls.
NextEditor ==
    /\ UNCHANGED <<hookVars, call, returned, closure>>
    /\ \/ Snapshot
       \/ EditorShown /\ handleStartDrawing
       \/ EditorShown /\ handleCancelDrawing
       \/ /\ EditorShown
          /\ Len(editor[1].newPolygonPoints) < 3
          /\ handlePointAdd(1)
       \/ /\ EditorShown
          /\ editor[1].adding = {}
          /\ \E id \in RegionIds :
                /\ Len(editor[1].addDocCalls) = id - 1
                /\ handlePolygonComplete(id)
       \/ \E id \in RegionIds : SaveResolved(id)
       \/ \E id \in RegionIds : SaveRejected(id)
       \/ EditorShown /\ \E id \in editor[1].regions : handleRegionSelect(id)
       \/ /\ DeleteButtonShown
          /\ editor[1].showDeleteConfirm =>
                editor[1].deleting = {} /\ Len(editor[1].deleteCalls) < MaxRegions
          /\ handleDelete
       \/ DeleteButtonShown /\ BlurDelete
       \/ \E id \in RegionIds : DeleteRejected(id)
       \/ \E id \in RegionIds : DeleteResolved(id)

SpecEditor == InitEditor /\ [][NextEditor]_vars

\* ------------------------------------------------------------ claims
SettleOps == {"settleStartSuccess", "settleStartFailure",
              "settleNextSuccess", "settleNextFailure"}

\* C1: after any sequence of session operations roundResults never holds
\* more than totalRounds (5) records.
C1_HistoryBound == Len(roundResults) <= TOTAL_ROUNDS

\* C2: submitGuess called while the guess location is absent, the guess floor
\* is absent or no image is loaded changes none of roundResults,
\* currentResult and screen.
C2_IncompleteSubmitIsNoOp ==
    [][(/\ lastOp' = "submitGuess"
        /\ (guessLocation = Null \/ guessFloor = Null \/ currentImage = Null))
       => UNCHANGED <<roundResults, currentResult, screen>>]_vars

\* a submitGuess was rejected on the game screen for its missing floor
C2_Witness ==
    /\ lastOp = "submitGuess"
    /\ screen = "game"
    /\ currentImage # Null
    /\ guessLocation # Null
    /\ guessFloor = Null

\* C3: when the fetch of a nextRound called from the result screen of a
\* non-final round rejects, the session is still on result with error set,
\* currentResult present and roundResults unchanged.
C3_FailedAdvanceStaysOnResult ==
    [][(lastOp' = "settleNextFailure" /\ screen = "result")
       => (/\ screen' = "result"
           /\ error' # Null
           /\ currentResult' # Null
           /\ roundResults' = roundResults)]_vars

\* C4: a fetch that settles after resetGame was called while it was
\* outstanding mutates nothing: screen stays title, no image appears, the
\* guess stays empty and error stays absent.
C4_StaleFetchDiscarded ==
    [][(lastOp = "resetGame" /\ lastOp' \in SettleOps)
       => (/\ screen' = "title"
           /\ currentImage' = Null
           /\ guessLocation' = Null
           /\ guessFloor' = Null
           /\ error' = Null)]_vars

\* C5: nextRound on the result screen of round totalRounds, that round's
\* guess submitted, moves to finalResults and issues no fetch.
C5_LastRoundShortCircuit ==
    [][(/\ lastOp' = "nextRound"
        /\ screen = "result"
        /\ currentRound = TOTAL_ROUNDS
        /\ currentResult # Null)
       => (screen' = "finalResults" /\ pending' = pending /\ isLoading' = isLoading)]_vars

\* nextRound has moved the submitted last round to finalResults, nothing fetched
C5_Witness ==
    /\ lastOp = "nextRound"
    /\ screen = "finalResults"
    /\ currentRound = TOTAL_ROUNDS
    /\ currentResult # Null
    /\ currentResult[1].roundNumber = TOTAL_ROUNDS
    /\ PendingCount = 0

\* C6 as stated: currentResult is present exactly when screen is result.
C6_ResultIffResultScreen == (currentResult # Null) <=> (screen = "result")

\* C6 amended: with the App's controls used one at a time, currentResult is
\* absent on title and game; on result it is present except while
\* nextRound's fetch is outstanding; on finalResults it is still present
\* until Play Again empties the history.
C6_Amended ==
    /\ screen \in {"title", "game"} => currentResult = Null
    /\ screen = "result" => ((currentResult # Null) <=> (PendingCount = 0))
    /\ screen = "finalResults" => ((currentResult # Null) <=> (roundResults # <<>>))
    /\ currentResult # Null => currentResult[1] = roundResults[Len(roundResults)]

\* the record of the last round is still current on finalResults
C6_Witness ==
    /\ screen = "finalResults"
    /\ lastOp = "viewFinalResults"
    /\ currentResult # Null
    /\ Len(roundResults) = TOTAL_ROUNDS

\* C7 as stated: currentRound = roundResults.length + 1 on game and result
\* while the match is not finished, and currentRound = totalRounds once it is.
C7_RoundIsHistoryPlusOne ==
    /\ (screen \in {"game", "result"} /\ Len(roundResults) < TOTAL_ROUNDS)
          => currentRound = Len(roundResults) + 1
    /\ (screen = "finalResults" \/ Len(roundResults) >= TOTAL_ROUNDS)
          => currentRound = TOTAL_ROUNDS

\* C7 amended: with the App's controls used one at a time, currentRound is
\* roundResults.length + 1 on game and on result while nextRound's fetch is
\* outstanding, roundResults.length on result once the guess is submitted,
\* and on finalResults totalRounds = roundResults.length until Play Again
\* resets it to 1 with an empty history.
C7_Amended ==
    /\ screen = "game" => currentRound = Len(roundResults) + 1
    /\ screen = "result" =>
          currentRound = Len(roundResults) + (IF currentResult = Null THEN 1 ELSE 0)
    /\ screen = "finalResults" =>
          \/ currentRound = TOTAL_ROUNDS /\ Len(roundResults) = TOTAL_ROUNDS
          \/ currentRound = 1 /\ roundResults = <<>>

\* the third round's guess is submitted: round 3, three records
C7_Witness ==
    /\ screen = "result"
    /\ lastOp = "submitGuess"
    /\ currentRound = 3
    /\ Len(roundResults) = 3

\* C8: a startGame fetch that rejects on the title screen leaves screen at
\* title, sets error to the load failure and isLoading to false.
C8_FailedStartStaysOnTitle ==
    [][(lastOp' = "settleStartFailure" /\ screen = "title")
       => (screen' = "title" /\ error' = Some(LoadFailure) /\ isLoading' = FALSE)]_vars

\* a startGame fetch has failed on the title screen
C8_Witness ==
    /\ lastOp = "settleStartFailure"
    /\ screen = "title"
    /\ error = Some(LoadFailure)
    /\ ~isLoading
    /\ roundResults = <<>>

\* C9: Play Again on finalResults ends on title with error set when its fetch
\* fails, and on game at round 1 with empty history when it succeeds.
C9_PlayAgainLikeStartMatch ==
    [][/\ (lastOp' = "settleStartFailure" /\ screen = "finalResults")
            => (screen' = "title" /\ error' # Null)
       /\ (lastOp' = "settleStartSuccess" /\ screen = "finalResults")
            => (screen' = "game" /\ currentRound' = 1 /\ roundResults' = <<>>)]_vars

\* C10 as stated: viewFinalResults reaches finalResults only from the result
\* screen of the last round and leaves the screen alone anywhere else.
C10_ViewFinalResultsGuarded ==
    [][lastOp' = "viewFinalResults"
       => IF screen = "result" /\ currentRound = TOTAL_ROUNDS
          THEN screen' = "finalResults"
          ELSE screen' = screen]_vars

\* C10 amended: viewFinalResults sets screen to finalResults from every
\* state and changes nothing else.
C10_Amended ==
    [][lastOp' = "viewFinalResults"
       => (/\ screen' = "finalResults"
           /\ UNCHANGED <<currentRound, currentImage, guessLocation, guessFloor,
                          currentResult, roundResults, isLoading, error, pending>>)]_vars

\* viewFinalResults has ended a match on the result screen of round 1
C10_Witness ==
    /\ lastOp = "viewFinalResults"
    /\ screen = "finalResults"
    /\ currentRound = 1
    /\ currentResult # Null
    /\ Len(roundResults) = 1

SuccessOps == {"settleStartSuccess", "settleNextSuccess"}
GuessOps == {"placeMarker", "selectFloor", "submitGuess"}

\* C11: from screen finalResults, submitGuess, nextRound, viewFinalResults,
\* placeMarker and selectFloor all leave the screen at finalResults.
C11_FinalResultsTerminal ==
    [][(/\ screen = "finalResults"
        /\ lastOp' \in GuessOps \cup {"nextRound", "viewFinalResults"})
       => screen' = "finalResults"]_vars

\* C12: resetGame from any state, also while a fetch is outstanding, puts
\* every session field at its initial value.
C12_ResetRestoresInitialState ==
    lastOp = "resetGame" =>
        /\ screen = "title"
        /\ currentRound = 1
        /\ currentImage = Null
        /\ guessLocation = Null
        /\ guessFloor = Null
        /\ currentResult = Null
        /\ roundResults = <<>>
        /\ error = Null
        /\ isLoading = FALSE

\* C13: roundResults never contains two records with the same roundNumber.
C13_OneRecordPerRound ==
    \A i, j \in 1..Len(roundResults) :
        i # j => roundResults[i].roundNumber # roundResults[j].roundNumber

\* C14: when a fetch of startGame or nextRound has succeeded and the new
\* target is current, guessLocation and guessFloor are both absent.
C14_GuessEmptyOnNewTarget ==
    lastOp \in SuccessOps =>
        /\ currentImage # Null
        /\ guessLocation = Null
        /\ guessFloor = Null

\* the round-2 target has been loaded after a round-1 guess was submitted
C14_Witness ==
    /\ lastOp = "settleNextSuccess"
    /\ screen = "game"
    /\ currentRound = 2
    /\ Len(roundResults) = 1
    /\ roundResults[1].guessLocation # Null
    /\ guessLocation = Null
    /\ guessFloor = Null

\* C15: after any successful startGame or nextRound, error is absent.
C15_ErrorClearedBySuccess == lastOp \in SuccessOps => error = Null

\* C16: isLoading is true exactly while a fetch of startGame or nextRound is
\* outstanding.
C16_LoadingIffFetchOutstanding == isLoading <=> (PendingCount > 0)

\* C17 as stated: placeMarker, selectFloor and submitGuess called while no
\* image is loaded leave the whole session state unchanged.
C17_NoTargetCallsAreNoOps ==
    [][(currentImage = Null /\ lastOp' \in GuessOps)
       => UNCHANGED <<screen, currentRound, currentImage, guessLocation, guessFloor,
                      currentResult, roundResults, isLoading, error, pending>>]_vars

\* C17 amended: while no image is loaded, placeMarker stores its point in
\* guessLocation and selectFloor its floor in guessFloor, each changing
\* nothing else, and submitGuess changes nothing at all.
C17_Amended ==
    [][currentImage = Null =>
        /\ lastOp' = "placeMarker" =>
              /\ guessLocation' # Null
              /\ UNCHANGED <<screen, currentRound, currentImage, guessFloor,
                             currentResult, roundResults, isLoading, error, pending>>
        /\ lastOp' = "selectFloor" =>
              /\ guessFloor' # Null
              /\ UNCHANGED <<screen, currentRound, currentImage, guessLocation,
                             currentResult, roundResults, isLoading, error, pending>>
        /\ lastOp' = "submitGuess" =>
              UNCHANGED <<screen, currentRound, currentImage, guessLocation, guessFloor,
                          currentResult, roundResults, isLoading, error, pending>>]_vars

\* placeMarker has stored a point on the title screen, no image loaded
C17_Witness ==
    /\ lastOp = "placeMarker"
    /\ screen = "title"
    /\ currentImage = Null
    /\ guessLocation # Null
    /\ roundResults = <<>>

\* C18: while a fetch is outstanding and isLoading is true, placeMarker,
\* selectFloor and submitGuess change neither the guess fields nor
\* roundResults nor the screen.
C18_NoGuessOpsWhileLoading ==
    [][(isLoading /\ PendingCount > 0 /\ lastOp' \in GuessOps)
       => UNCHANGED <<guessLocation, guessFloor, roundResults, screen>>]_vars

\* C19: on the game screen with a target loaded, submitGuess produces a
\* record for every guess whose location and floor are both present, floor 0
\* included.
C19_PresenceIsSolePrecondition ==
    [][(/\ lastOp' = "submitGuess"
        /\ screen = "game"
        /\ currentImage # Null
        /\ guessLocation # Null
        /\ guessFloor # Null)
       => (/\ screen' = "result"
           /\ Len(roundResults') = Len(roundResults) + 1)]_vars

\* C20: a round's target is immutable once assigned: a fetch that settles
\* right after another fetch has loaded the round's target (so it was issued
\* before that target was assigned) does not replace currentImage.
C20_TargetImmutable ==
    [][(/\ lastOp \in SuccessOps
        /\ screen = "game"
        /\ lastOp' \in SettleOps)
       => currentImage' = currentImage]_vars

\* C21: within a match roundResults only grows by appending: submitGuess
\* leaves it alone or appends one record behind the unchanged earlier ones,
\* startGame and resetGame empty it, and every other operation leaves it
\* unchanged.
C21_HistoryAppendOnly ==
    [][/\ lastOp' = "submitGuess" =>
            \/ roundResults' = roundResults
            \/ /\ Len(roundResults') = Len(roundResults) + 1
               /\ SubSeq(roundResults', 1, Len(roundResults)) = roundResults
       /\ lastOp' \in {"startGame", "resetGame"} => roundResults' = <<>>
       /\ lastOp' \notin {"submitGuess", "startGame", "resetGame"} =>
            roundResults' = roundResults]_vars

\* a third record has been appended behind the records of rounds 1 and 2
C21_Witness ==
    /\ lastOp = "submitGuess"
    /\ screen = "result"
    /\ Len(roundResults) = 3
    /\ roundResults[1].roundNumber = 1
    /\ roundResults[2].roundNumber = 2
    /\ roundResults[3].roundNumber = 3

\* the floor of the target of image img: its correctFloor, or the default
\* floor 1 when the document has no correctFloor
TargetFloor(img) == IF correctFloor(img) = Null THEN 1 ELSE correctFloor(img)[1]

\* C22: every record submitGuess produced has floorCorrect = (guessFloor
\* equals the target floor), and score = locationScore when floorCorrect,
\* otherwise locationScore * 0.8 rounded to the nearest integer.
C22_RecordScoreRule ==
    \A i \in 1..Len(roundResults) :
        LET r == roundResults[i]
        IN  /\ r.floorCorrect <=> (r.guessFloor = Some(TargetFloor(r.image[1])))
            /\ r.floorCorrect => r.score = r.locationScore
            /\ ~r.floorCorrect =>
                  /\ 10 * r.score - 5 <= 8 * r.locationScore
                  /\ 8 * r.locationScore < 10 * r.score + 5

\* C25: a submitGuess the guard accepts, made on a target without
\* correctLocation, is scored against {x: 50, y: 50}, and on a target without
\* correctFloor against floor 1; both times it appends the record, moves to
\* result and leaves error as it was.
C25_MissingTargetFieldsDefault ==
    [][(/\ lastOp' = "submitGuess"
        /\ currentImage # Null
        /\ guessLocation # Null
        /\ TruthyNumber(guessFloor)
        /\ (correctLocation(currentImage[1]) = Null \/ correctFloor(currentImage[1]) = Null))
       => (/\ screen' = "result"
           /\ error' = error
           /\ Len(roundResults') = Len(roundResults) + 1
           /\ currentResult' = Some(roundResults'[Len(roundResults')])
           /\ correctLocation(currentImage[1]) = Null =>
                 /\ currentResult'[1].actualLocation = [x |-> 50, y |-> 50]
                 /\ currentResult'[1].distance =
                       calculateDistance(Location(guessLocation[1]), [x |-> 50, y |-> 50])
           /\ correctFloor(currentImage[1]) = Null =>
                 /\ currentResult'[1].actualFloor = 1
                 /\ currentResult'[1].floorCorrect <=> (guessFloor = Some(1)))]_vars

\* a guess 5 units from the map centre was scored on the target without
\* correctLocation
C25_Witness ==
    /\ lastOp = "submitGuess"
    /\ screen = "result"
    /\ error = Null
    /\ currentResult # Null
    /\ correctLocation(currentResult[1].image[1]) = Null
    /\ currentResult[1].actualLocation = [x |-> 50, y |-> 50]
    /\ currentResult[1].distance = 5
    /\ currentResult[1].locationScore = 3894

\* C23: for every integer locationScore in [0, 5000] with a wrong floor, the
\* displayed floor penalty plus the penalised round score is locationScore.
C23_PenaltyPlusScoreIsLocationScore ==
    (Returned("ResultScreen") /\ ~call[1].floorCorrect) =>
        returned[1].floorPenalty + returned[1].totalScore = call[1].locationScore

\* the location score 3894 is split into the score 3115 and the penalty 779
C23_Witness ==
    /\ Returned("ResultScreen")
    /\ ~call[1].floorCorrect
    /\ call[1].locationScore = 3894
    /\ returned[1].totalScore = 3115
    /\ returned[1].floorPenalty = 779

\* C24: calculateLocationScore(d) is an integer in [0, 5000] for every
\* distance d, is 5000 at d = 0, and does not increase from d to d + 1 for
\* d >= 0.
C24_LocationScoreRangeAndMonotone ==
    Returned("calculateLocationScore") =>
        /\ returned[1] \in 0..5000
        /\ call[1].distance = 0 => returned[1] = 5000
        /\ call[1].distance >= 0 =>
              returned[1] >= calculateLocationScore(call[1].distance + 1)

\* the score at 10 units is round(5000 * exp(-0.5)) = 3033
C24_Witness ==
    /\ Returned("calculateLocationScore")
    /\ call[1].distance = 10
    /\ returned[1] = 3033

\* the sum of the score fields of rounds[1..n]
RECURSIVE ScoreSum(_, _)
ScoreSum(rounds, n) == IF n = 0 THEN 0 ELSE rounds[n].score + ScoreSum(rounds, n - 1)

\* C26: the final results screen shows as total the sum of score over all
\* records and as maximum the number of records times 5000, for every rounds
\* array of 0 to 5 records.
C26_TotalAndMaxOfHistory ==
    Returned("FinalResultsScreen") =>
        /\ returned[1].totalScore = ScoreSum(call[1].rounds, Len(call[1].rounds))
        /\ returned[1].maxPossible = Len(call[1].rounds) * 5000

\* three rounds of 5000, 4000 and 3894 points: 12894 of 15000
C26_Witness ==
    /\ Returned("FinalResultsScreen")
    /\ Len(call[1].rounds) = 3
    /\ call[1].rounds[1].score = 5000
    /\ call[1].rounds[2].score = 4000
    /\ call[1].rounds[3].score = 3894
    /\ returned[1].totalScore = 12894
    /\ returned[1].maxPossible = 15000

\* C27: with percentage = total / max * 100 the tier is Perfect from 95,
\* Excellent from 80, Great from 60, Good from 40, Keep Practicing from 20,
\* each bound included, and Beginner below 20.
C27_TierThresholds ==
    (Returned("getPerformanceRating") /\ call[1].maxPossible > 0) =>
        LET t == 100 * call[1].totalScore
            m == call[1].maxPossible
            rating == returned[1]
        IN  /\ rating = "Perfect!" <=> t >= 95 * m
            /\ rating = "Excellent!" <=> (t >= 80 * m /\ t < 95 * m)
            /\ rating = "Great!" <=> (t >= 60 * m /\ t < 80 * m)
            /\ rating = "Good" <=> (t >= 40 * m /\ t < 60 * m)
            /\ rating = "Keep Practicing" <=> (t >= 20 * m /\ t < 40 * m)
            /\ rating = "Beginner" <=> t < 20 * m

\* 23750 of 25000 points, exactly 95%, is rated Perfect
C27_Witness ==
    /\ Returned("getPerformanceRating")
    /\ call[1].totalScore = 23750
    /\ call[1].maxPossible = 25000
    /\ returned[1] = "Perfect!"

\* C28: with an empty history the maximum is 0 and the tier is the tier of
\* percentage 0, Beginner: the final results screen computes it for an
\* empty rounds array, and getPerformanceRating(0, 0) returns it.
C28_EmptyHistoryIsBeginner ==
    /\ (Returned("FinalResultsScreen") /\ call[1].rounds = <<>>) =>
          /\ returned[1].maxPossible = 0
          /\ returned[1].totalScore = 0
          /\ returned[1].performance = "Beginner"
    /\ (Returned("getPerformanceRating") /\ call[1].maxPossible = 0) =>
          returned[1] = "Beginner"

\* the final results screen has computed Beginner of 0 points for no rounds
C28_Witness ==
    /\ Returned("FinalResultsScreen")
    /\ call[1].rounds = <<>>
    /\ returned[1].maxPossible = 0
    /\ returned[1].performance = "Beginner"

\* C30: calculateDistance returns the Euclidean distance, the same for (a, b)
\* and (b, a), and 0 exactly when the two points are equal.
C30_DistanceSymmetricZeroIffEqual ==
    Returned("calculateDistance") =>
        LET a == call[1].guess
            b == call[1].actual
            n == (a.x - b.x) * (a.x - b.x) + (a.y - b.y) * (a.y - b.y)
        IN  /\ returned[1] * returned[1] <= n
            /\ n < (returned[1] + 1) * (returned[1] + 1)
            /\ returned[1] = calculateDistance(b, a)
            /\ returned[1] = 0 <=> a = b

\* the distance from (0, 0) to (3, 4) is 5
C30_Witness ==
    /\ Returned("calculateDistance")
    /\ call[1].guess = [x |-> 0, y |-> 0]
    /\ call[1].actual = [x |-> 3, y |-> 4]
    /\ returned[1] = 5

\* the match is over with one record per round, in order
MatchComplete ==
    /\ screen = "finalResults"
    /\ Len(roundResults) = TOTAL_ROUNDS
    /\ \A i \in 1..TOTAL_ROUNDS : roundResults[i].roundNumber = i

\* C29: when every fetch succeeds and the player completes, submits and
\* advances each round, the session reaches finalResults, and is there only
\* with exactly 5 records whose roundNumbers are 1, 2, 3, 4, 5 in order.
C29_MatchCompletes ==
    /\ <>(screen = "finalResults")
    /\ [](screen = "finalResults" => MatchComplete)

\* nextRound has ended the match after the fifth submission
C29_Witness ==
    /\ MatchComplete
    /\ lastOp = "nextRound"
    /\ currentResult # Null
    /\ currentResult[1] = roundResults[TOTAL_ROUNDS]

\* C31: getRandomImage never rejects: when the collection is empty or the
\* Firestore read fails it resolves with one of the built-in sample images,
\* and otherwise with one of the fetched documents, its data merged with its
\* document id.
C31_GetRandomImageNeverRejects ==
    Returned("getRandomImage") =>
        LET docs == call[1].getDocs.docs
            image == returned[1].value
        IN  /\ returned[1].settled = "resolved"
            /\ IF call[1].getDocs.rejects \/ Len(docs) = 0
               THEN \E i \in 1..Len(SAMPLE_IMAGES) : image = SAMPLE_IMAGES[i]
               ELSE \E i \in 1..Len(docs) :
                       /\ image.id = docs[i].id
                       /\ image.url = docs[i].data.url

\* the Firestore read failed and the call resolved with a sample image
C31_Witness ==
    /\ Returned("getRandomImage")
    /\ call[1].getDocs.rejects
    /\ returned[1].settled = "resolved"
    /\ returned[1].value = SAMPLE_IMAGES[3]

\* C32: on the game screen the Guess button is enabled exactly when both a
\* guess location and a guess floor are selected, and a click on it while it
\* is disabled never invokes the submit handler.
C32_GuessButtonGate ==
    [][GameShown =>
          /\ GuessEnabled <=> (guessLocation # Null /\ guessFloor # Null)
          /\ ~(guessLocation # Null /\ guessFloor # Null) =>
                lastOp' # "submitGuess"
          /\ lastOp' = "clickDisabledGuess" =>
                /\ ~(guessLocation # Null /\ guessFloor # Null)
                /\ UNCHANGED hookVars]_vars

\* the button was clicked with a marker placed and no floor selected
C32_Witness ==
    /\ lastOp = "clickDisabledGuess"
    /\ GameShown
    /\ guessLocation # Null
    /\ guessFloor = Null
    /\ roundResults = <<>>

\* C33: in every reachable state 1 <= currentRound <= totalRounds (5), also
\* when nextRound is invoked repeatedly, twice before the first call settles,
\* or on screens other than result.
C33_RoundInRange == currentRound \in 1..TOTAL_ROUNDS

\* C34: every record pairs its roundNumber with the target fetched for that
\* round, never with an earlier round's image, also after a failed nextRound
\* fetch. When the fetch nextRound issued has failed, no target was fetched
\* for the current round, so a submitGuess that follows records nothing.
C34_RecordTargetOfItsRound ==
    [][(/\ lastOp = "settleNextFailure"
        /\ lastOp' = "submitGuess") => roundResults' = roundResults]_vars

\* C35: driven only through the controls the App renders, the finalResults
\* screen is reached only when roundResults holds exactly totalRounds records
\* with the round numbers 1..5.
C35_FinalOnlyAfterFiveRounds ==
    [][(screen # "finalResults" /\ screen' = "finalResults") => MatchComplete']_vars

\* C36: session operations take effect in call order: on the game screen
\* with a target loaded, once placeMarker(p) and selectFloor(f) have returned,
\* an immediately following submitGuess sees that guess and produces a record
\* of it.
C36_SubmitSeesTheGuessJustMade ==
    [][(/\ lastOp \in {"placeMarker", "selectFloor"}
        /\ lastOp' = "submitGuess"
        /\ screen = "game"
        /\ currentImage # Null
        /\ guessLocation # Null
        /\ TruthyNumber(guessFloor))
       => /\ Len(roundResults') = Len(roundResults) + 1
          /\ roundResults'[Len(roundResults')].guessLocation = guessLocation
          /\ roundResults'[Len(roundResults')].guessFloor = guessFloor
          /\ screen' = "result"]_vars

\* C37: when the loaded target carries a floor value, the record's target
\* floor equals that value for every integer floor (including 0); the
\* default floor 1 is substituted only when the floor field is missing.
C37_TargetFloorKept ==
    \A i \in 1..Len(roundResults) :
        LET record == roundResults[i]
            field == correctFloor(record.image[1])
        IN  record.actualFloor = IF field # Null THEN field[1] ELSE 1

C39_PolygonCompletion ==
    [][LET old == editor[1]
           new == editor'[1]
       IN  /\ (lastOp' = "polygonComplete" /\ Len(old.newPolygonPoints) < 3)
                 => new = old
           /\ new.addDocCalls # old.addDocCalls
                 => /\ lastOp' = "polygonComplete"
                    /\ Len(old.newPolygonPoints) >= 3
                    /\ new.addDocCalls = Append(old.addDocCalls, old.newPolygonPoints)
           /\ lastOp' = "saveResolved"
                 => /\ ~new.isDrawing
                    /\ new.newPolygonPoints = <<>>
                    /\ new.selectedRegionId # Null
                    /\ old.adding \ new.adding = {new.selectedRegionId[1]}
           /\ new.isDrawing => new.selectedRegionId = Null]_vars

\* a polygon of three points was completed and saved, and is selected
C39_Witness ==
    /\ editor # Null
    /\ lastOp = "saveResolved"
    /\ editor[1].addDocCalls = <<<<1, 1, 1>>>>
    /\ editor[1].selectedRegionId = Some(1)
    /\ ~editor[1].isDrawing
    /\ editor[1].newPolygonPoints = <<>>

\* C40: deleting a region in the region panel takes two clicks on the delete
\* button: the first click only arms the confirmation, the delete callback
\* fires only on a click made while armed, and the armed state is cleared by
\* a blur of the button or by a change of the selected region, after which
\* two clicks are needed again.
C40_DeleteNeedsConfirmation ==
    [][LET old == editor[1]
           new == editor'[1]
       IN  /\ (lastOp' = "clickDelete" /\ ~old.showDeleteConfirm)
                 => /\ new = [old EXCEPT !.showDeleteConfirm = TRUE]
           /\ new.deleteCalls # old.deleteCalls
                 => /\ lastOp' = "clickDelete"
                    /\ old.showDeleteConfirm
                    /\ ~new.showDeleteConfirm
                    /\ new.deleteCalls = Append(old.deleteCalls, old.selectedRegionId[1])
           /\ lastOp' = "blurDelete" => ~new.showDeleteConfirm
           /\ (selectedRegion(new) # Null /\ selectedRegion(new) # selectedRegion(old))
                 => ~new.showDeleteConfirm]_vars

\* the second click on the armed delete button called the delete callback
C40_Witness ==
    /\ editor # Null
    /\ lastOp = "clickDelete"
    /\ editor[1].deleteCalls = <<1>>
    /\ ~editor[1].showDeleteConfirm
    /\ 1 \in editor[1].deleting
====
